---- MODULE Spec2Model ----
(***************************************************************************)
(* The conformance server of server/server.go: the three handlers Parse,   *)
(* Check and Eval, the diagnostic translation (appendErrors, ErrToStatus)  *)
(* and the two value conversions (RefValueToExprValue,                     *)
(* ExprValueToRefValue).  The expression engine (package cel) is outside   *)
(* server.go; it is represented by a small deterministic stand-in that     *)
(* produces every outcome shape the handlers branch on.                    *)
(***************************************************************************)
EXTENDS Integers, Sequences, FiniteSets, TLC

VARIABLES
    server,   \* the ConformanceServer value (a struct with no fields)
    pc,       \* per call: where the handler is
    req,      \* per call: the request being handled
    prg,      \* per call: Eval's program (the expression it was built from)
    args,     \* per call: Eval's argument map
    todo,     \* per call: the bindings the range loop has not visited yet
    engine,   \* per call: the engine steps the handler has reached
    out,      \* per call: what the handler returned (response, error)
    conv      \* the value under conversion (conversion specification)

vars == <<server, pc, req, prg, args, todo, engine, out, conv>>

\* ------------------------------------------------------------------ bounds

MaxErrs == 2      \* longest diagnostic list / error set
MaxIds == 3       \* longest unknown-set identifier list
MaxHops == 2      \* conversions applied in a row to one value

\* ------------------------------------------------------------- basic values

Nil == [nil |-> TRUE]

InvalidArgument == "InvalidArgument"
Unknown == "Unknown"
Codes == {InvalidArgument, Unknown}

Placeholder == "XXX add details later"

Pair(v, e) == [val |-> v, err |-> e]

RECURSIVE SeqsUpTo(_, _)
SeqsUpTo(S, n) ==
    IF n = 0 THEN {<<>>}
    ELSE LET shorter == SeqsUpTo(S, n - 1)
         IN  shorter \cup {Append(s, x) : s \in {t \in shorter : Len(t) = n - 1}, x \in S}

\* rpcpb.Status
Status(code, msg, details) == [Code |-> code, Message |-> msg, Details |-> details]

\* status.New(c, msg).Err(): an error carrying a gRPC status
StatusErr(code, msg) == [err |-> "status", st |-> Status(code, msg, <<>>)]

\* an error carrying no gRPC status (errors.New, an engine error)
PlainErr(text) == [err |-> "plain", text |-> text]

\* fmt.Errorf(format, a...)
Errorf(format, a) == [err |-> "errorf", format |-> format, a |-> a]

\* err.Error() of the errors handed to status.Convert
ErrorText(e) ==
    IF e.err = "plain" THEN e.text
    ELSE "rpc error: code = " \o e.st.Code \o " desc = " \o e.st.Message

\* status.Convert(err).Proto(): the error's own status when it carries one,
\* codes.Unknown with the error's text otherwise.
Convert(e) ==
    IF e.err = "status" THEN e.st ELSE Status(Unknown, ErrorText(e), <<>>)

\* --------------------------------------------------------------- host values

IntVal(n) == [type |-> "int", v |-> n]
UintVal(n) == [type |-> "uint", v |-> n]
NullValue == [type |-> "null", v |-> 0]
Opaque == [type |-> "opaque", v |-> 0]

\* types.NewErr(msg)
NewErr(msg) == [type |-> "error", msg |-> msg]

\* types.Unknown(ids)
UnknownVal(ids) == [type |-> "unknown", ids |-> ids]

\* types.IsUnknown(res)
IsUnknown(res) == res.type = "unknown"

\* ---------------------------------------------------------------- wire values

\* exprpb.Value
Int64Value(n) == [kind |-> "int64_value", v |-> n]
Uint64Value(n) == [kind |-> "uint64_value", v |-> n]
WireNull == [kind |-> "null_value", v |-> 0]
UnsetValue == [kind |-> "unset", v |-> 0]

\* exprpb.ExprValue, by the tag of its Kind
ExprValue_Value(v) == [kind |-> "value", value |-> v]
ExprValue_Error(errs) == [kind |-> "error", errors |-> errs]
ExprValue_Unknown(ids) == [kind |-> "unknown", exprs |-> ids]
ExprValue_None == [kind |-> "none"]

Tags == {"value", "error", "unknown"}

\* cel.RefValueToValue(res)
RefValueToValue(res) ==
    CASE res.type = "int" -> Pair(Int64Value(res.v), Nil)
      [] res.type = "uint" -> Pair(Uint64Value(res.v), Nil)
      [] res.type = "null" -> Pair(WireNull, Nil)
      [] OTHER -> Pair(Nil, PlainErr("unknown type " \o res.type))

\* cel.ValueToRefValue(adapter, v)
ValueToRefValue(adapter, v) ==
    CASE v.kind = "int64_value" -> Pair(IntVal(v.v), Nil)
      [] v.kind = "uint64_value" -> Pair(UintVal(v.v), Nil)
      [] v.kind = "null_value" -> Pair(NullValue, Nil)
      [] OTHER -> Pair(Nil, PlainErr("unknown value"))

\* ------------------------------------------------------------ the conversions

\* faulty variant: looks at the host value before the error
RefValueToExprValue_KeepsHostValue(res, err) ==
    IF res # Nil /\ IsUnknown(res) THEN Pair(ExprValue_Unknown(res.ids), Nil)
    ELSE IF err # Nil THEN Pair(ExprValue_Error(<<Convert(err)>>), Nil)
    ELSE LET r == RefValueToValue(res)
         IN  IF r.err # Nil THEN Pair(Nil, r.err)
             ELSE Pair(ExprValue_Value(r.val), Nil)

\* faulty variant: the identifiers come out in reverse order
RefValueToExprValue_Reversed(res, err) ==
    IF err # Nil THEN Pair(ExprValue_Error(<<Convert(err)>>), Nil)
    ELSE IF IsUnknown(res)
    THEN Pair(ExprValue_Unknown([i \in 1..Len(res.ids) |-> res.ids[Len(res.ids) + 1 - i]]), Nil)
    ELSE LET r == RefValueToValue(res)
         IN  IF r.err # Nil THEN Pair(Nil, r.err)
             ELSE Pair(ExprValue_Value(r.val), Nil)

\* faulty variant: an evaluation error is returned as a failure
RefValueToExprValue_Failing(res, err) ==
    IF err # Nil THEN Pair(Nil, err)
    ELSE IF IsUnknown(res) THEN Pair(ExprValue_Unknown(res.ids), Nil)
    ELSE LET r == RefValueToValue(res)
         IN  IF r.err # Nil THEN Pair(Nil, r.err)
             ELSE Pair(ExprValue_Value(r.val), Nil)

RefValueToExprValue(res, err) ==
    IF err # Nil THEN Pair(ExprValue_Error(<<Convert(err)>>), Nil)
    ELSE IF IsUnknown(res) THEN Pair(ExprValue_Unknown(res.ids), Nil)
    ELSE LET r == RefValueToValue(res)
         IN  IF r.err # Nil THEN Pair(Nil, r.err)
             ELSE Pair(ExprValue_Value(r.val), Nil)

\* faulty variant: the host error takes the first record's message
ExprValueToRefValue_JoinsMessages(adapter, ev) ==
    CASE ev.kind = "value" -> ValueToRefValue(adapter, ev.value)
      [] ev.kind = "error" ->
            Pair(NewErr(IF ev.errors = <<>> THEN Placeholder ELSE ev.errors[1].Message), Nil)
      [] ev.kind = "unknown" -> Pair(UnknownVal(ev.exprs), Nil)
      [] OTHER -> Pair(Nil, StatusErr(InvalidArgument, "unknown ExprValue kind"))

\* faulty variant: the unknown case of the type switch is missing
ExprValueToRefValue_NoUnknown(adapter, ev) ==
    CASE ev.kind = "value" -> ValueToRefValue(adapter, ev.value)
      [] ev.kind = "error" -> Pair(NewErr(Placeholder), Nil)
      [] OTHER -> Pair(Nil, StatusErr(InvalidArgument, "unknown ExprValue kind"))

ExprValueToRefValue(adapter, ev) ==
    CASE ev.kind = "value" -> ValueToRefValue(adapter, ev.value)
      [] ev.kind = "error" -> Pair(NewErr(Placeholder), Nil)
      [] ev.kind = "unknown" -> Pair(UnknownVal(ev.exprs), Nil)
      [] OTHER -> Pair(Nil, StatusErr(InvalidArgument, "unknown ExprValue kind"))

\* ---------------------------------------------------- diagnostics to statuses

\* common.Error: a message at a location
Diag(msg, line, col) == [Message |-> msg, Line |-> line, Column |-> col]

\* confpb.IssueDetails
IssueDetails(severity, line, col) ==
    [Severity |-> severity, Line |-> line, Column |-> col]

Severity_ERROR == "ERROR"

\* faulty variant: a failed attachment loses the code and the message
\* attached: whether s.WithDetails(&detail) returned no error
ErrToStatus_Drops(e, severity, attached) ==
    IF attached
    THEN Status(InvalidArgument, e.Message, <<IssueDetails(severity, e.Line, e.Column)>>)
    ELSE Status(Unknown, "", <<>>)

\* attached: whether s.WithDetails(&detail) returned no error
ErrToStatus(e, severity, attached) ==
    IF attached
    THEN Status(InvalidArgument, e.Message, <<IssueDetails(severity, e.Line, e.Column)>>)
    ELSE Status(InvalidArgument, e.Message, <<>>)

\* faulty variant: nothing is appended
appendErrors_DropsAll(errs, issues, attached) == issues

\* attached[i]: the outcome of WithDetails for errs[i]
RECURSIVE appendErrors(_, _, _)
appendErrors(errs, issues, attached) ==
    IF errs = <<>> THEN issues
    ELSE appendErrors(Tail(errs),
                      Append(issues, ErrToStatus(Head(errs), Severity_ERROR, Head(attached))),
                      Tail(attached))

\* ------------------------------------------------------------ input domains

Ids == {1, 3, 5}
IdSeqs == SeqsUpTo(Ids, MaxIds)

ErrMsgs == {"division by zero", Placeholder}
DiagMsgs == {"unexpected token", "undeclared reference"}

Diags == {Diag(m, 1, 0) : m \in DiagMsgs} \cup {Diag(m, 3, 5) : m \in DiagMsgs}
DiagSeqs == SeqsUpTo(Diags, MaxErrs)

Statuses == {Status(c, m, <<>>) : c \in Codes, m \in ErrMsgs}
StatusSeqs == SeqsUpTo(Statuses, MaxErrs)

WireValues == {Int64Value(1), Uint64Value(1), WireNull, UnsetValue}

ExprValues ==
    {ExprValue_Value(v) : v \in WireValues}
    \cup {ExprValue_Error(e) : e \in StatusSeqs}
    \cup {ExprValue_Unknown(s) : s \in IdSeqs}
    \cup {ExprValue_None}

HostValues ==
    {IntVal(1), UintVal(1), NullValue, Opaque}
    \cup {NewErr(m) : m \in ErrMsgs}
    \cup {UnknownVal(s) : s \in IdSeqs}

\* the errors prg.Eval can hand back
EvalErrs ==
    {PlainErr(m) : m \in ErrMsgs} \cup {StatusErr(c, m) : c \in Codes, m \in ErrMsgs}

\* env.TypeAdapter()
Adapter == "TypeAdapter"

\* ------------------------------------------- the conversions as a state machine
\* conv.orig is the input, conv.steps the results of the conversions applied
\* to it so far, each the (value, error) pair the function returned.

ConvIdle == [orig |-> [in |-> "idle"], steps |-> <<>>]

ConvInputs ==
    {[in |-> "host", res |-> r, err |-> Nil] : r \in HostValues}
    \cup {[in |-> "host", res |-> r, err |-> e] : r \in HostValues \cup {Nil}, e \in EvalErrs}
    \cup {[in |-> "wire", ev |-> ev] : ev \in ExprValues}
    \cup UNION {{[in |-> "diags", errs |-> d, attached |-> a] :
                    a \in [1..Len(d) -> BOOLEAN]} : d \in DiagSeqs}

Step(op, r) == [op |-> op, val |-> r.val, err |-> r.err]

Last(s) == s[Len(s)]

\* the host value (and evaluation error) the next RefValueToExprValue takes
HostAtHand ==
    IF conv.steps = <<>> THEN conv.orig.in = "host"
    ELSE Last(conv.steps).op = "ExprValueToRefValue" /\ Last(conv.steps).err = Nil

WireAtHand ==
    IF conv.steps = <<>> THEN conv.orig.in = "wire"
    ELSE Last(conv.steps).op = "RefValueToExprValue" /\ Last(conv.steps).err = Nil

ConvToWire ==
    /\ Len(conv.steps) < MaxHops
    /\ HostAtHand
    /\ LET r == IF conv.steps = <<>>
                THEN RefValueToExprValue(conv.orig.res, conv.orig.err)
                ELSE RefValueToExprValue(Last(conv.steps).val, Nil)
       IN  conv' = [conv EXCEPT !.steps = Append(@, Step("RefValueToExprValue", r))]
    /\ UNCHANGED <<server, pc, req, prg, args, todo, engine, out>>

ConvToHost ==
    /\ Len(conv.steps) < MaxHops
    /\ WireAtHand
    /\ LET r == IF conv.steps = <<>>
                THEN ExprValueToRefValue(Adapter, conv.orig.ev)
                ELSE ExprValueToRefValue(Adapter, Last(conv.steps).val)
       IN  conv' = [conv EXCEPT !.steps = Append(@, Step("ExprValueToRefValue", r))]
    /\ UNCHANGED <<server, pc, req, prg, args, todo, engine, out>>

ConvAppendErrors ==
    /\ conv.steps = <<>>
    /\ conv.orig.in = "diags"
    /\ conv' = [conv EXCEPT !.steps =
                   <<Step("appendErrors",
                          Pair(appendErrors(conv.orig.errs, <<>>, conv.orig.attached), Nil))>>]
    /\ UNCHANGED <<server, pc, req, prg, args, todo, engine, out>>

\* ------------------------------------------------------ the engine stand-in
\* Package cel: parse, check, program construction and evaluation, reduced to
\* a deterministic function of its input over a handful of expressions.

Ast(expr, info, checked) == [expr |-> expr, info |-> info, checked |-> checked]

SourceInfo(src) == [Location |-> src]

ParsedExpr(expr) == [Expr |-> expr, SourceInfo |-> SourceInfo(expr)]
CheckedExpr(expr) == [Expr |-> expr, SourceInfo |-> SourceInfo(expr), TypeMap |-> "types"]

\* cel.Issues
Issues(errs) == [errs |-> errs]

\* iss.Err(): non-nil exactly when the issues hold an error
IssuesErr(iss) == IF iss.errs = <<>> THEN Nil ELSE PlainErr("issues")

\* env.Parse(txt) under the parse options; macros: macro expansion is on
EnvParse(txt, macros) ==
    CASE txt = "1" -> [ast |-> Ast("1", SourceInfo(txt), FALSE), iss |-> Nil]
      [] txt = "x" -> [ast |-> Ast("x", SourceInfo(txt), FALSE), iss |-> Issues(<<>>)]
      [] txt = "has(x)" ->
            [ast |-> Ast(IF macros THEN "x~test-only~" ELSE "has(x)", SourceInfo(txt), FALSE),
             iss |-> Nil]
      [] txt = "1 +" -> [ast |-> Nil, iss |-> Issues(<<Diag("unexpected token", 1, 0)>>)]
      [] OTHER ->
            [ast |-> Nil,
             iss |-> Issues(<<Diag("unexpected token", 1, 0), Diag("mismatched input", 3, 5)>>)]

\* env.Check(ast) in the environment the check options build
EnvCheck(ast, stdlib, decls) ==
    LET errs ==
            CASE ast.expr = "1" -> <<>>
              [] ast.expr = "x" ->
                    IF "x" \in decls THEN <<>> ELSE <<Diag("undeclared reference", 1, 0)>>
              [] OTHER ->
                    (IF stdlib THEN <<>> ELSE <<Diag("undeclared function", 1, 0)>>)
                    \o (IF "x" \in decls THEN <<>> ELSE <<Diag("undeclared reference", 3, 5)>>)
    IN  IF errs = <<>>
        THEN [ast |-> Ast(ast.expr, ast.info, TRUE),
              iss |-> IF ast.expr = "1" THEN Nil ELSE Issues(<<>>)]
        ELSE [ast |-> Nil, iss |-> Issues(errs)]

\* cel.AstToParsedExpr, cel.AstToCheckedExpr, cel.ParsedExprToAst, cel.CheckedExprToAst
AstToParsedExpr(a) == Pair([Expr |-> a.expr, SourceInfo |-> a.info], Nil)

AstToCheckedExpr(a) ==
    IF a.checked
    THEN Pair([Expr |-> a.expr, SourceInfo |-> a.info, TypeMap |-> "types"], Nil)
    ELSE Pair(Nil, PlainErr("cannot convert unchecked ast"))

ParsedExprToAst(pe) == Ast(pe.Expr, pe.SourceInfo, FALSE)
CheckedExprToAst(ce) == Ast(ce.Expr, ce.SourceInfo, TRUE)

\* env.Program(ast)
EnvProgram(ast) ==
    IF ast.expr = "f()" THEN Pair(Nil, PlainErr("no such overload")) ELSE Pair(ast, Nil)

\* prg.Eval(args): an error value comes back with its error
PrgEval(p, a) ==
    CASE p.expr = "1" -> Pair(IntVal(1), Nil)
      [] p.expr = "x" ->
            IF "x" \in DOMAIN a
            THEN IF a["x"].type = "error" THEN Pair(a["x"], PlainErr(a["x"].msg))
                 ELSE Pair(a["x"], Nil)
            ELSE Pair(NewErr("no such attribute"), PlainErr("no such attribute"))
      [] p.expr = "1/0" -> Pair(NewErr("division by zero"), PlainErr("division by zero"))
      [] OTHER -> Pair(Opaque, Nil)

\* ----------------------------------------------------------------- requests

Calls == {"c1", "c2"}

ParseSources == {"", "1", "x", "has(x)", "1 +", "+ +"}
CheckExprs == {"1", "x", "size(x)"}
EvalExprs == {"1", "x", "1/0", "f()", "opaque"}
Names == {"x", "y"}

BindingValues ==
    {ExprValue_Value(Int64Value(1)),
     ExprValue_Error(<<Status(Unknown, "division by zero", <<>>)>>),
     ExprValue_None}

BindingMaps == UNION {[D -> BindingValues] : D \in SUBSET Names}

ParseRequests ==
    {[method |-> "Parse", CelSource |-> s, DisableMacros |-> b] :
        s \in ParseSources, b \in BOOLEAN}

CheckRequests ==
    {[method |-> "Check", ParsedExpr |-> p, NoStdEnv |-> b, TypeEnv |-> t] :
        p \in {Nil, [Expr |-> "x", SourceInfo |-> Nil]} \cup {ParsedExpr(e) : e \in CheckExprs},
        b \in BOOLEAN, t \in {{}, {"x"}}}

ExprKinds ==
    {[kind |-> "none"]}
    \cup {[kind |-> "parsed", expr |-> ParsedExpr(e)] : e \in EvalExprs}
    \cup {[kind |-> "checked", expr |-> CheckedExpr(e)] : e \in {"1", "x"}}

EvalRequests ==
    {[method |-> "Eval", ExprKind |-> k, Bindings |-> b] : k \in ExprKinds, b \in BindingMaps}

Requests == ParseRequests \cup CheckRequests \cup EvalRequests

\* the requests two concurrent calls draw from
ConcRequests ==
    {r \in ParseRequests : r.CelSource \in {"", "1 +"} /\ ~r.DisableMacros}
    \cup {r \in CheckRequests : r.ParsedExpr \in {Nil, ParsedExpr("x")} /\ ~r.NoStdEnv}
    \cup {r \in EvalRequests :
            /\ r.ExprKind \in {[kind |-> "none"],
                                [kind |-> "parsed", expr |-> ParsedExpr("x")],
                                [kind |-> "parsed", expr |-> ParsedExpr("1/0")]}
            /\ \A n \in DOMAIN r.Bindings :
                  r.Bindings[n] \in {ExprValue_Value(Int64Value(1)), ExprValue_None}}

\* ----------------------------------------------------------------- handlers
\* A handler's return: the response, the error, and the engine steps it reached.

Ret(val, err, reached) == [val |-> val, err |-> err, reached |-> reached]

\* the diagnostics the engine reports for a Parse or Check request that gets
\* as far as the engine (one WithDetails outcome is drawn per diagnostic)
Reported(in) ==
    LET iss == IF in.method = "Parse"
               THEN IF in.CelSource = "" THEN Nil ELSE EnvParse(in.CelSource, ~in.DisableMacros).iss
               ELSE IF in.method = "Check" /\ in.ParsedExpr # Nil /\ in.ParsedExpr.SourceInfo # Nil
               THEN EnvCheck(ParsedExprToAst(in.ParsedExpr), ~in.NoStdEnv, in.TypeEnv).iss
               ELSE Nil
    IN  IF iss = Nil THEN <<>> ELSE iss.errs

Attachments(in) == [1..Len(Reported(in)) -> BOOLEAN]

Parse(in, attached) ==
    IF in.CelSource = ""
    THEN Ret(Nil, StatusErr(InvalidArgument, "No source code."), {})
    ELSE LET r == EnvParse(in.CelSource, ~in.DisableMacros)
         IN  IF r.iss = Nil \/ IssuesErr(r.iss) = Nil
             THEN Ret([ParsedExpr |-> AstToParsedExpr(r.ast).val, Issues |-> <<>>],
                      Nil, {"Parse"})
             ELSE Ret([ParsedExpr |-> Nil,
                       Issues |-> appendErrors(r.iss.errs, <<>>, attached)],
                      Nil, {"Parse"})

\* faulty variant: the source info is not looked at
Check_NoSourceInfoGuard(in, attached) ==
    IF in.ParsedExpr = Nil
    THEN Ret(Nil, StatusErr(InvalidArgument, "No parsed expression."), {})
    ELSE LET r == EnvCheck(ParsedExprToAst(in.ParsedExpr), ~in.NoStdEnv, in.TypeEnv)
         IN  IF r.iss = Nil \/ IssuesErr(r.iss) = Nil
             THEN Ret([CheckedExpr |-> AstToCheckedExpr(r.ast).val, Issues |-> <<>>],
                      Nil, {"Check"})
             ELSE Ret([CheckedExpr |-> Nil,
                       Issues |-> appendErrors(r.iss.errs, <<>>,
                                               [i \in 1..Len(r.iss.errs) |-> TRUE])],
                      Nil, {"Check"})

Check(in, attached) ==
    IF in.ParsedExpr = Nil
    THEN Ret(Nil, StatusErr(InvalidArgument, "No parsed expression."), {})
    ELSE IF in.ParsedExpr.SourceInfo = Nil
    THEN Ret(Nil, StatusErr(InvalidArgument, "No source info."), {})
    ELSE LET r == EnvCheck(ParsedExprToAst(in.ParsedExpr), ~in.NoStdEnv, in.TypeEnv)
         IN  IF r.iss = Nil \/ IssuesErr(r.iss) = Nil
             THEN Ret([CheckedExpr |-> AstToCheckedExpr(r.ast).val, Issues |-> <<>>],
                      Nil, {"Check"})
             ELSE Ret([CheckedExpr |-> Nil,
                       Issues |-> appendErrors(r.iss.errs, <<>>, attached)],
                      Nil, {"Check"})

\* Eval, lines 99-119: the switch over the expression kind and env.Program
EvalProgram(in) ==
    IF in.ExprKind.kind = "none"
    THEN Ret(Nil, StatusErr(InvalidArgument, "No expression."), {})
    ELSE LET ast == IF in.ExprKind.kind = "parsed"
                    THEN ParsedExprToAst(in.ExprKind.expr)
                    ELSE CheckedExprToAst(in.ExprKind.expr)
             r == EnvProgram(ast)
         IN  Ret(r.val, r.err, {"Program"})

\* Eval, lines 129-134: evaluation and the conversion of its result
EvalResult(p, a) ==
    LET r == PrgEval(p, a)
        x == RefValueToExprValue(r.val, r.err)
    IN  IF x.err # Nil
        THEN Ret(Nil, Errorf("con't convert result: %s", <<x.err>>), {"Eval"})
        ELSE Ret([Result |-> x.val], Nil, {"Eval"})

\* args := make(map[string]interface{}): the map a call fills is its own
\* faulty variant: one map shared by every call
ArgsSlot_Shared(c) == "c1"

ArgsSlot(c) == c

EmptyMap == <<>>

\* ------------------------------------------------------------------ actions

Finish(c, r) ==
    /\ out' = [out EXCEPT ![c] = Pair(r.val, r.err)]
    /\ engine' = [engine EXCEPT ![c] = @ \cup r.reached]
    /\ pc' = [pc EXCEPT ![c] = "done"]

\* a request arrives on a free call slot
Receive(c, R) ==
    /\ pc[c] \in {"idle", "done"}
    /\ \E r \in R :
          /\ req' = [req EXCEPT ![c] = r]
          /\ pc' = [pc EXCEPT ![c] = r.method]
    /\ prg' = [prg EXCEPT ![c] = Nil]
    /\ todo' = [todo EXCEPT ![c] = {}]
    /\ engine' = [engine EXCEPT ![c] = {}]
    /\ out' = [out EXCEPT ![c] = Nil]
    /\ UNCHANGED <<server, args, conv>>

DoParse(c) ==
    /\ pc[c] = "Parse"
    /\ \E attached \in Attachments(req[c]) : Finish(c, Parse(req[c], attached))
    /\ UNCHANGED <<server, req, prg, args, todo, conv>>

DoCheck(c) ==
    /\ pc[c] = "Check"
    /\ \E attached \in Attachments(req[c]) : Finish(c, Check(req[c], attached))
    /\ UNCHANGED <<server, req, prg, args, todo, conv>>

EvalStart(c) ==
    /\ pc[c] = "Eval"
    /\ LET r == EvalProgram(req[c])
       IN  IF r.err # Nil
           THEN Finish(c, r) /\ UNCHANGED <<prg, args, todo>>
           ELSE /\ prg' = [prg EXCEPT ![c] = r.val]
                /\ engine' = [engine EXCEPT ![c] = @ \cup r.reached]
                /\ args' = [args EXCEPT ![ArgsSlot(c)] = EmptyMap]
                /\ todo' = [todo EXCEPT ![c] = DOMAIN req[c].Bindings]
                /\ pc' = [pc EXCEPT ![c] = "bind"]
                /\ out' = out
    /\ UNCHANGED <<server, req, conv>>

\* faulty variant: a binding that fails to convert is skipped
EvalBind_Skips(c) ==
    /\ pc[c] = "bind"
    /\ \E name \in todo[c] :
          LET r == ExprValueToRefValue(Adapter, req[c].Bindings[name])
          IN  /\ args' = IF r.err # Nil THEN args
                         ELSE [args EXCEPT ![ArgsSlot(c)] = (name :> r.val) @@ @]
              /\ todo' = [todo EXCEPT ![c] = @ \ {name}]
              /\ UNCHANGED <<pc, out, engine>>
    /\ UNCHANGED <<server, req, prg, conv>>

\* one iteration of the range over in.Bindings (in any order)
EvalBind(c) ==
    /\ pc[c] = "bind"
    /\ \E name \in todo[c] :
          LET r == ExprValueToRefValue(Adapter, req[c].Bindings[name])
          IN  IF r.err # Nil
              THEN /\ Finish(c, Ret(Nil, Errorf("can't convert binding %s: %s",
                                                <<name, r.err>>), {}))
                   /\ UNCHANGED <<args, todo>>
              ELSE /\ args' = [args EXCEPT ![ArgsSlot(c)] = (name :> r.val) @@ @]
                   /\ todo' = [todo EXCEPT ![c] = @ \ {name}]
                   /\ UNCHANGED <<pc, out, engine>>
    /\ UNCHANGED <<server, req, prg, conv>>

EvalRun(c) ==
    /\ pc[c] = "bind"
    /\ todo[c] = {}
    /\ Finish(c, EvalResult(prg[c], args[ArgsSlot(c)]))
    /\ UNCHANGED <<server, req, prg, args, todo, conv>>

\* ------------------------------------------------------------ specifications

Init ==
    /\ server = <<>>
    /\ pc = [c \in Calls |-> "idle"]
    /\ req = [c \in Calls |-> Nil]
    /\ prg = [c \in Calls |-> Nil]
    /\ args = [c \in Calls |-> EmptyMap]
    /\ todo = [c \in Calls |-> {}]
    /\ engine = [c \in Calls |-> {}]
    /\ out = [c \in Calls |-> Nil]
    /\ conv = ConvIdle

\* one call at a time, over every request
Next ==
    \E c \in {"c1"} :
        \/ Receive(c, Requests)
        \/ DoParse(c)
        \/ DoCheck(c)
        \/ EvalStart(c)
        \/ EvalBind(c)
        \/ EvalRun(c)

Spec == Init /\ [][Next]_vars

\* the calls run concurrently, their steps interleaved
ConcNext ==
    \E c \in Calls :
        \/ Receive(c, ConcRequests)
        \/ DoParse(c)
        \/ DoCheck(c)
        \/ EvalStart(c)
        \/ EvalBind(c)
        \/ EvalRun(c)

ConcSpec == Init /\ [][ConcNext]_vars

ConvInit ==
    /\ server = <<>>
    /\ pc = [c \in Calls |-> "idle"]
    /\ req = [c \in Calls |-> Nil]
    /\ prg = [c \in Calls |-> Nil]
    /\ args = [c \in Calls |-> EmptyMap]
    /\ todo = [c \in Calls |-> {}]
    /\ engine = [c \in Calls |-> {}]
    /\ out = [c \in Calls |-> Nil]
    /\ conv \in {[orig |-> i, steps |-> <<>>] : i \in ConvInputs}

ConvNext == ConvToWire \/ ConvToHost \/ ConvAppendErrors

ConvSpec == ConvInit /\ [][ConvNext]_vars

\* ------------------------------------------------------------------ claims

IsInvalidArgument(e) == e # Nil /\ e.err = "status" /\ e.st.Code = InvalidArgument

Rejected(c, msg) ==
    /\ out[c] = Pair(Nil, StatusErr(InvalidArgument, msg))
    /\ engine[c] = {}

\* C1: a request lacking a required field is rejected with InvalidArgument and
\* no response, with the stated message, before any engine step is reached.
RequiredFieldsRejected ==
    \A c \in Calls :
        pc[c] = "done" =>
            LET in == req[c]
            IN  /\ (in.method = "Parse" /\ in.CelSource = "")
                      => Rejected(c, "No source code.")
                /\ (in.method = "Check" /\ in.ParsedExpr = Nil)
                      => /\ out[c].val = Nil
                         /\ IsInvalidArgument(out[c].err)
                         /\ engine[c] = {}
                /\ (in.method = "Check" /\ in.ParsedExpr # Nil /\ in.ParsedExpr.SourceInfo = Nil)
                      => Rejected(c, "No source info.")
                /\ (in.method = "Eval" /\ in.ExprKind.kind = "none")
                      => Rejected(c, "No expression.")

RequiredFieldsRejectedWitness ==
    \E c \in Calls :
        /\ pc[c] = "done"
        /\ req[c].method = "Check"
        /\ req[c].ParsedExpr # Nil
        /\ req[c].ParsedExpr.SourceInfo = Nil
        /\ out[c].err # Nil

AllConvert(b) == \A n \in DOMAIN b : ExprValueToRefValue(Adapter, b[n]).err = Nil

Converted(b) == [n \in DOMAIN b |-> ExprValueToRefValue(Adapter, b[n]).val]

EvalWithExpression(c) ==
    /\ pc[c] = "done"
    /\ req[c].method = "Eval"
    /\ req[c].ExprKind.kind # "none"
    /\ AllConvert(req[c].Bindings)

OneTagResponse(c) ==
    /\ out[c].err = Nil
    /\ out[c].val.Result.kind \in Tags

Artifact(c) ==
    IF req[c].method = "Parse" THEN out[c].val.ParsedExpr ELSE out[c].val.CheckedExpr

\* C4: a successful Parse or Check response carries the artifact or a
\* non-empty issue list, never both and never neither; when the engine reports
\* diagnostics the call still succeeds and the artifact is unset.
ArtifactOrIssues ==
    \A c \in Calls :
        (pc[c] = "done" /\ req[c].method \in {"Parse", "Check"}) =>
            /\ out[c].err = Nil
                  => (Artifact(c) # Nil) # (out[c].val.Issues # <<>>)
            /\ Reported(req[c]) # <<>>
                  => /\ out[c].err = Nil
                     /\ Artifact(c) = Nil
                     /\ Len(out[c].val.Issues) = Len(Reported(req[c]))

ArtifactOrIssuesWitness ==
    \E c \in Calls :
        /\ pc[c] = "done"
        /\ req[c].method = "Check"
        /\ out[c].err = Nil
        /\ Len(out[c].val.Issues) = 2

\* C10: the program is evaluated only once every binding is converted and
\* stored under its own name; a binding that fails to convert ends the call
\* with a failure naming a failing binding, no evaluation and no result.
BindingsBeforeEval ==
    \A c \in Calls :
        (req[c] # Nil /\ req[c].method = "Eval") =>
            LET b == req[c].Bindings
            IN  /\ "Eval" \in engine[c]
                      => /\ AllConvert(b)
                         /\ args[c] = Converted(b)
                /\ (pc[c] = "done" /\ prg[c] # Nil /\ ~AllConvert(b))
                      => /\ "Eval" \notin engine[c]
                         /\ out[c].val = Nil
                         /\ \E n \in DOMAIN b :
                               LET r == ExprValueToRefValue(Adapter, b[n])
                               IN  /\ r.err # Nil
                                   /\ out[c].err = Errorf("can't convert binding %s: %s",
                                                          <<n, r.err>>)

BindingsBeforeEvalWitness ==
    \E c \in Calls :
        /\ pc[c] = "done"
        /\ req[c].method = "Eval"
        /\ prg[c] # Nil
        /\ DOMAIN req[c].Bindings = Names
        /\ ~AllConvert(req[c].Bindings)
        /\ DOMAIN args[c] # {}
        /\ out[c].err # Nil

\* What a request returns when it is the only call the server ever handles:
\* the handler run from start to end on its own, over every order in which the
\* range loop can visit the bindings and every WithDetails outcome.
RECURSIVE BindAlone(_, _, _, _)
BindAlone(in, p, rest, a) ==
    IF rest = {}
    THEN LET r == EvalResult(p, a) IN {Pair(r.val, r.err)}
    ELSE UNION {LET r == ExprValueToRefValue(Adapter, in.Bindings[n])
                IN  IF r.err # Nil
                    THEN {Pair(Nil, Errorf("can't convert binding %s: %s", <<n, r.err>>))}
                    ELSE BindAlone(in, p, rest \ {n}, (n :> r.val) @@ a)
                : n \in rest}

AloneOutcomes(in) ==
    CASE in.method = "Parse" ->
            {Pair(Parse(in, t).val, Parse(in, t).err) : t \in Attachments(in)}
      [] in.method = "Check" ->
            {Pair(Check(in, t).val, Check(in, t).err) : t \in Attachments(in)}
      [] OTHER ->
            LET p == EvalProgram(in)
            IN  IF p.err # Nil THEN {Pair(p.val, p.err)}
                ELSE BindAlone(in, p.val, DOMAIN in.Bindings, EmptyMap)

\* C9: the server value never changes, and whatever the interleaving of the
\* calls, what a call returns is what its request returns when run alone.
CallsAreIndependent ==
    /\ server = <<>>
    /\ \A c \in Calls : pc[c] = "done" => out[c] \in AloneOutcomes(req[c])

CallsAreIndependentWitness ==
    \E c, d \in Calls :
        /\ c # d
        /\ pc[c] = "done" /\ pc[d] = "done"
        /\ req[c].method = "Eval" /\ req[d].method = "Eval"
        /\ req[c].ExprKind = [kind |-> "parsed", expr |-> ParsedExpr("x")]
        /\ req[c].Bindings = EmptyMap
        /\ "x" \in DOMAIN req[d].Bindings
        /\ "Eval" \in engine[c] /\ "Eval" \in engine[d]

Converting(in) == conv.orig.in = in /\ conv.steps # <<>>

\* C3 as stated: with an evaluation error, the result is an error set of one
\* record with code InvalidArgument and the error's text.
EvalErrorIsInvalidArgument ==
    (Converting("host") /\ conv.orig.err # Nil) =>
        /\ conv.steps[1].err = Nil
        /\ conv.steps[1].val =
              ExprValue_Error(<<Status(InvalidArgument, ErrorText(conv.orig.err), <<>>)>>)

\* C3 amended: with an evaluation error, whatever the host value, the result
\* is (without failing) an error set of exactly one record: the status the
\* error carries, or code Unknown with the error's text when it carries none.
EvalErrorIsOneStatus ==
    (Converting("host") /\ conv.orig.err # Nil) =>
        LET r == conv.steps[1]
        IN  /\ r.err = Nil
            /\ r.val.kind = "error"
            /\ Len(r.val.errors) = 1
            /\ IF conv.orig.err.err = "status"
               THEN r.val.errors[1] = conv.orig.err.st
               ELSE /\ r.val.errors[1].Code = Unknown
                    /\ r.val.errors[1].Message = conv.orig.err.text
                    /\ r.val.errors[1].Details = <<>>

EvalErrorIsOneStatusWitness ==
    /\ Converting("host")
    /\ conv.orig.err # Nil
    /\ conv.orig.err.err = "plain"
    /\ conv.orig.res # Nil
    /\ IsUnknown(conv.orig.res)
    /\ conv.steps[1].val.kind = "error"

\* C5: any error set converts, without failing, to the host error with the
\* placeholder message, and converting that host value back does not give the
\* original error set.
ErrorSetBecomesPlaceholder ==
    (Converting("wire") /\ conv.orig.ev.kind = "error") =>
        /\ conv.steps[1] = Step("ExprValueToRefValue", Pair(NewErr(Placeholder), Nil))
        /\ Len(conv.steps) >= 2
              => /\ conv.steps[2].val # conv.orig.ev
                 /\ (conv.steps[2].val = Nil \/ conv.steps[2].val.kind # "error")

ErrorSetBecomesPlaceholderWitness ==
    /\ Converting("wire")
    /\ conv.orig.ev.kind = "error"
    /\ Len(conv.orig.ev.errors) = 2
    /\ Len(conv.steps) >= 2

\* C6: an unknown set keeps its identifiers and their order in both
\* directions, so either round trip gives back the value it started from.
UnknownRoundTrip ==
    /\ (Converting("host") /\ conv.orig.err = Nil /\ IsUnknown(conv.orig.res)) =>
          /\ conv.steps[1] =
                Step("RefValueToExprValue", Pair(ExprValue_Unknown(conv.orig.res.ids), Nil))
          /\ Len(conv.steps) >= 2
                => (conv.steps[2].err = Nil /\ conv.steps[2].val = conv.orig.res)
    /\ (Converting("wire") /\ conv.orig.ev.kind = "unknown") =>
          /\ conv.steps[1] =
                Step("ExprValueToRefValue", Pair(UnknownVal(conv.orig.ev.exprs), Nil))
          /\ Len(conv.steps) >= 2
                => (conv.steps[2].err = Nil /\ conv.steps[2].val = conv.orig.ev)

UnknownRoundTripWitness ==
    /\ Converting("host")
    /\ conv.orig.err = Nil
    /\ conv.orig.res = UnknownVal(<<1, 3, 5>>)
    /\ Len(conv.steps) >= 2
    /\ conv.steps[2].val = UnknownVal(<<1, 3, 5>>)

UnknownKindErr == StatusErr(InvalidArgument, "unknown ExprValue kind")

\* C7: a Wire Value with no tag fails with InvalidArgument "unknown ExprValue
\* kind" and no host value; a Wire Value with a tag never gets that error.
OnlyUntaggedIsUnknownKind ==
    Converting("wire") =>
        IF conv.orig.ev.kind \in Tags
        THEN conv.steps[1].err # UnknownKindErr
        ELSE conv.steps[1].val = Nil /\ conv.steps[1].err = UnknownKindErr

OnlyUntaggedIsUnknownKindWitness ==
    /\ Converting("wire")
    /\ conv.orig.ev.kind \notin Tags
    /\ conv.steps[1].err = UnknownKindErr

\* C8: the issue list has one record per diagnostic, in order, each with code
\* InvalidArgument and the diagnostic's message; a failed attachment only
\* leaves the detail out.
OneStatusPerDiagnostic ==
    Converting("diags") =>
        LET errs == conv.orig.errs
            iss == conv.steps[1].val
        IN  /\ conv.steps[1].err = Nil
            /\ Len(iss) = Len(errs)
            /\ \A i \in 1..Len(errs) :
                  /\ iss[i].Code = InvalidArgument
                  /\ iss[i].Message = errs[i].Message
                  /\ iss[i].Details =
                        IF conv.orig.attached[i]
                        THEN <<IssueDetails(Severity_ERROR, errs[i].Line, errs[i].Column)>>
                        ELSE <<>>

OneStatusPerDiagnosticWitness ==
    /\ Converting("diags")
    /\ Len(conv.orig.errs) = 2
    /\ conv.orig.errs[1].Message # conv.orig.errs[2].Message
    /\ conv.orig.attached[1]
    /\ ~conv.orig.attached[2]
    /\ Len(conv.steps[1].val) = 2

====
